---- MODULE Spec2Model ----
(***************************************************************************)
(* HubSpot foreign data wrapper (src/src/lib.rs): the scan engine.          *)
(*                                                                          *)
(* The single HubspotFdw instance holds the record buffer (src_rows), the   *)
(* read index (src_idx), the pagination cursor (after) and the more-flag    *)
(* (has_more).  The host drives it through begin_scan / iter_scan /         *)
(* re_scan / end_scan and the five write entry points.  Every entry point   *)
(* runs to completion before the next one starts (single-threaded host), so *)
(* each one is one action.                                                  *)
(*                                                                          *)
(* Option<T> is modelled as a sequence of length 0 (None) or 1 (Some(x)).   *)
(***************************************************************************)
EXTENDS Integers, Sequences, FiniteSets, TLC

VARIABLES
    ctx_object, \* the `object` option of the foreign table whose context the
                \* host passes to every call: ctx.get_options(OptionsType::Table)
    api_key,    \* HubspotFdw.api_key
    base_url,   \* HubspotFdw.base_url
    src_rows,   \* HubspotFdw.src_rows : Vec<JsonValue>
    src_idx,    \* HubspotFdw.src_idx  : usize
    after,      \* HubspotFdw.after    : Option<String>
    has_more,   \* HubspotFdw.has_more : bool
    ret,        \* what the last entry point did: its result, the requests it
                \* issued, the caller's row, and the state it started from
    scan,       \* the current scan's request count and last pagination (see NoScan)
    hist        \* the rows the current scan returned (see NoHist), recorded
                \* only under HistSpec

vars == <<ctx_object, api_key, base_url, src_rows, src_idx, after, has_more, ret, scan, hist>>

-----------------------------------------------------------------------------
(* Bounds of the model *)

\* requests one scan may issue (initial fetch included)
MaxFetches == 2

-----------------------------------------------------------------------------
(* Option<T> *)

None == << >>
Some(x) == <<x>>
IsSome(o) == o # << >>
Unwrap(o) == o[1]

-----------------------------------------------------------------------------
(* serde_json::Value.  An object is a function from its keys to values     *)

JNull == [kind |-> "null"]
JBool(b) == [kind |-> "bool", b |-> b]
JNum(n) == [kind |-> "number", n |-> n]
JStr(s) == [kind |-> "string", s |-> s]
JArr(items) == [kind |-> "array", items |-> items]
JObj(fields) == [kind |-> "object", fields |-> fields]

\* Value::get(key) with a string key: Some only on an object holding the key
Get(v, key) ==
    IF v.kind = "object"
    THEN IF key \in DOMAIN v.fields THEN Some(v.fields[key]) ELSE None
    ELSE None

\* Value::as_str
AsStr(v) == IF v.kind = "string" THEN Some(v.s) ELSE None

\* Value::as_bool
AsBool(v) == IF v.kind = "bool" THEN Some(v.b) ELSE None

\* Value::as_array
AsArray(v) == IF v.kind = "array" THEN Some(v.items) ELSE None

\* Value::is_number
IsNumber(v) == v.kind = "number"

\* Option::and_then(|v| v.get(key))
AndThenGet(o, key) == IF IsSome(o) THEN Get(Unwrap(o), key) ELSE None

-----------------------------------------------------------------------------
(* The data the model draws its inputs from *)

\* cursor tokens the remote API hands out
Tokens == {"T1", "T2"}

\* remote records
RecA ==
    JObj([id |-> JStr("1"), name |-> JStr("Acme"),
          properties |-> JObj([name |-> JStr("Acme Props"), industry |-> JStr("Tech")])])
RecB ==
    JObj([id |-> JStr("2"), properties |-> JObj([industry |-> JStr("Media")])])

\* the results arrays a response may carry
Pages == { << >>, <<RecB>>, <<RecA, RecB>> }

\* the pagination envelope of a response: absent, present without "next",
\* "next" without "after", "next" whose "after" is no string, "next" with an
\* "after" token
PagingOpts ==
    { None,
      Some(JObj([prev |-> JObj([before |-> JStr("T0")])])),
      Some(JObj([next |-> JObj([link |-> JStr("l")])])),
      Some(JObj([next |-> JObj([after |-> JNum(7)])])) }
    \cup { Some(JObj([next |-> JObj([after |-> JStr(t), link |-> JStr("l")])])) : t \in Tokens }

\* the results field of a response: absent, not an array, an array of records
ResultsOpts == { None, Some(JNull) } \cup { Some(JArr(p)) : p \in Pages }

\* a response body that parses: a JSON object with the fields that are present
Body(paging, results) ==
    JObj([k \in {"message"} \cup (IF IsSome(paging) THEN {"paging"} ELSE {})
                            \cup (IF IsSome(results) THEN {"results"} ELSE {}) |->
            CASE k = "paging" -> Unwrap(paging)
              [] k = "results" -> Unwrap(results)
              [] OTHER -> JStr("ok")])

\* what http::get hands back: a transport error, or a response whose body
\* either parses as JSON (Some) or does not (None)
HttpResponses ==
    { [ok |-> FALSE, body |-> None], [ok |-> TRUE, body |-> None] }
    \cup { [ok |-> TRUE, body |-> Some(Body(p, r))] : p \in PagingOpts, r \in ResultsOpts }

\* the `object` option of a foreign table: absent, or a selector
ObjectOpts == { None, Some("contacts"), Some("companies"), Some("deals"), Some("tickets") }

-----------------------------------------------------------------------------
(* Results and errors *)

Ok == [ok |-> TRUE]
Err(e) == [ok |-> FALSE, err |-> e]

\* format!("Unsupported object type: {}", object)
UnsupportedError(object) == [msg |-> "Unsupported object type: {}", object |-> object]
\* http::get(..).map_err(|e| e.to_string())
TransportError == [msg |-> "http error"]
\* serde_json::from_str(..).map_err(|e| e.to_string())
ParseError == [msg |-> "json parse error"]
\* opts.require("object")? on a context without the option
MissingOptionError == [msg |-> "required option not specified", option |-> "object"]
\* format!("source column '{}' not found", tgt_col_name)
NotFoundError(name) == [msg |-> "source column '{}' not found", column |-> name]
\* format!("cannot convert column '{}' to type {:?}", tgt_col_name, tgt_col.type_oid())
ConvertError(name, type_oid) ==
    [msg |-> "cannot convert column '{}' to type {:?}", column |-> name, type_oid |-> type_oid]
\* "This FDW is read-only".to_string()
ReadOnlyError == [msg |-> "This FDW is read-only"]

-----------------------------------------------------------------------------
(* Row projection: iter_scan, the loop over ctx.get_columns() *)

\* A column name is held as its '.'-separated parts: tgt_col_name.contains(".")
\* is Len(name) > 1 and tgt_col_name.split('.') is the sequence itself.
Col(name, type_oid) == [name |-> name, type_oid |-> type_oid]

\* time::parse_from_rfc3339: the timestamp in microseconds, or an error
ParseRfc3339(s) ==
    CASE s = "1970-01-01T00:00:00Z" -> Some(0)
      [] s = "1970-01-01T00:00:01Z" -> Some(1000000)
      [] OTHER -> None

\* every object key of the model in the order serde_json's map keeps them
KeyOrder ==
    <<"active", "after", "before", "createdAt", "email", "id", "industry", "link", "message",
      "name", "next", "paging", "prev", "properties", "results", "score", "tags">>

RECURSIVE Serialize(_)
RECURSIVE SerializeItems(_, _)
RECURSIVE SerializeFields(_, _, _)

\* the elements of an array from the i-th on, comma separated
SerializeItems(items, i) ==
    IF i > Len(items) THEN ""
    ELSE Serialize(items[i]) \o (IF i < Len(items) THEN "," ELSE "")
         \o SerializeItems(items, i + 1)

\* the members of an object whose keys are KeyOrder[i..], comma separated
SerializeFields(fields, i, first) ==
    IF i > Len(KeyOrder) THEN ""
    ELSE IF KeyOrder[i] \in DOMAIN fields
         THEN (IF first THEN "" ELSE ",") \o "\"" \o KeyOrder[i] \o "\":"
              \o Serialize(fields[KeyOrder[i]]) \o SerializeFields(fields, i + 1, FALSE)
         ELSE SerializeFields(fields, i + 1, first)

\* Value::to_string: the compact JSON text of a value
Serialize(v) ==
    CASE v.kind = "null" -> "null"
      [] v.kind = "bool" -> IF v.b THEN "true" ELSE "false"
      [] v.kind = "number" -> ToString(v.n)
      [] v.kind = "string" -> "\"" \o v.s \o "\""
      [] v.kind = "array" -> "[" \o SerializeItems(v.items, 1) \o "]"
      [] OTHER -> "{" \o SerializeFields(v.fields, 1, TRUE) \o "}"

\* Cell variants
CellBool(b) == [cell |-> "Bool", b |-> b]
CellString(s) == [cell |-> "String", s |-> s]
CellTimestamp(t) == [cell |-> "Timestamp", ts |-> t]
CellJson(text) == [cell |-> "Json", json |-> text]

RECURSIVE WalkPath(_, _, _)
\* the dotted branch: `current = current.get(part)` for each part in turn
WalkPath(current, parts, i) ==
    IF i > Len(parts) THEN Some(current)
    ELSE LET next == Get(current, parts[i])
         IN  IF IsSome(next) THEN WalkPath(Unwrap(next), parts, i + 1) ELSE None

\* the source value of a column: None is the "source column not found" failure
\* ResolveColumn that retries a dotted name under "properties" when the walk
\* from the top level fails
ResolveColumnDottedFallback(src_row, name) ==
    IF Len(name) > 1
    THEN LET walked == WalkPath(src_row, name, 1)
         IN  IF IsSome(walked) THEN walked
             ELSE WalkPath(src_row, <<"properties">> \o name, 1)
    ELSE LET direct == Get(src_row, name[1])
         IN  IF IsSome(direct) THEN direct
             ELSE AndThenGet(Get(src_row, "properties"), name[1])

\* ResolveColumn that looks under "properties" before the top level
ResolveColumnPropertiesFirst(src_row, name) ==
    IF Len(name) > 1
    THEN WalkPath(src_row, name, 1)
    ELSE LET nested == AndThenGet(Get(src_row, "properties"), name[1])
         IN  IF IsSome(nested) THEN nested ELSE Get(src_row, name[1])

ResolveColumn(src_row, name) ==
    IF Len(name) > 1
    THEN WalkPath(src_row, name, 1)
    ELSE LET direct == Get(src_row, name[1])
         IN  IF IsSome(direct) THEN direct
             ELSE AndThenGet(Get(src_row, "properties"), name[1])

\* Coerce whose String arm also takes a number, as its text
CoerceNumberAsString(type_oid, src_value) ==
    CASE type_oid = "Bool" ->
           IF IsSome(AsBool(src_value)) THEN Some(CellBool(Unwrap(AsBool(src_value)))) ELSE None
      [] type_oid = "String" ->
           IF IsSome(AsStr(src_value)) THEN Some(CellString(Unwrap(AsStr(src_value))))
           ELSE IF IsNumber(src_value) THEN Some(CellString(Serialize(src_value)))
           ELSE None
      [] type_oid = "Timestamp" ->
           IF IsSome(AsStr(src_value)) /\ IsSome(ParseRfc3339(Unwrap(AsStr(src_value))))
           THEN Some(CellTimestamp(Unwrap(ParseRfc3339(Unwrap(AsStr(src_value))))))
           ELSE None
      [] type_oid = "Json" -> Some(CellJson(Serialize(src_value)))
      [] OTHER ->
           IF IsNumber(src_value) THEN Some(CellString(Serialize(src_value))) ELSE None

\* Coerce whose Json arm fails on null
CoerceJsonNotNull(type_oid, src_value) ==
    CASE type_oid = "Bool" ->
           IF IsSome(AsBool(src_value)) THEN Some(CellBool(Unwrap(AsBool(src_value)))) ELSE None
      [] type_oid = "String" ->
           IF IsSome(AsStr(src_value)) THEN Some(CellString(Unwrap(AsStr(src_value)))) ELSE None
      [] type_oid = "Timestamp" ->
           IF IsSome(AsStr(src_value)) /\ IsSome(ParseRfc3339(Unwrap(AsStr(src_value))))
           THEN Some(CellTimestamp(Unwrap(ParseRfc3339(Unwrap(AsStr(src_value))))))
           ELSE None
      [] type_oid = "Json" ->
           IF src_value.kind = "null" THEN None ELSE Some(CellJson(Serialize(src_value)))
      [] OTHER ->
           IF IsNumber(src_value) THEN Some(CellString(Serialize(src_value))) ELSE None

\* the cell of a value for a declared type: None is the conversion failure
Coerce(type_oid, src_value) ==
    CASE type_oid = "Bool" ->
           IF IsSome(AsBool(src_value)) THEN Some(CellBool(Unwrap(AsBool(src_value)))) ELSE None
      [] type_oid = "String" ->
           IF IsSome(AsStr(src_value)) THEN Some(CellString(Unwrap(AsStr(src_value)))) ELSE None
      [] type_oid = "Timestamp" ->
           IF IsSome(AsStr(src_value)) /\ IsSome(ParseRfc3339(Unwrap(AsStr(src_value))))
           THEN Some(CellTimestamp(Unwrap(ParseRfc3339(Unwrap(AsStr(src_value))))))
           ELSE None
      [] type_oid = "Json" -> Some(CellJson(Serialize(src_value)))
      [] OTHER ->
           IF IsNumber(src_value) THEN Some(CellString(Serialize(src_value))) ELSE None

RECURSIVE ProjectFrom(_, _, _, _)
\* the loop body for columns i.. : resolve, coerce, row.push(cell); the first
\* failure returns with the cells pushed so far still in the caller's row
ProjectFrom(src_row, cols, i, row) ==
    IF i > Len(cols) THEN [res |-> Ok, row |-> row]
    ELSE LET col == cols[i]
             src_value == ResolveColumn(src_row, col.name)
         IN  IF ~IsSome(src_value)
             THEN [res |-> Err(NotFoundError(col.name)), row |-> row]
             ELSE LET cell == Coerce(col.type_oid, Unwrap(src_value))
                  IN  IF ~IsSome(cell)
                      THEN [res |-> Err(ConvertError(col.name, col.type_oid)), row |-> row]
                      ELSE ProjectFrom(src_row, cols, i + 1, Append(row, Unwrap(cell)))

-----------------------------------------------------------------------------
(* HubspotFdw::fetch_data *)

\* the fields of the instance a scan works on
This == [src_rows |-> src_rows, src_idx |-> src_idx, after |-> after, has_more |-> has_more]

\* the match on `object`: the endpoint path, None for the `_` arm
Endpoint(object) ==
    CASE object = "contacts" -> Some("/crm/v3/objects/contacts")
      [] object = "companies" -> Some("/crm/v3/objects/companies")
      [] object = "deals" -> Some("/crm/v3/objects/deals")
      [] OTHER -> None

\* BuildUrl without the `if let Some(after)` block: the cursor is never sent
BuildUrlWithoutCursor(base, endpoint, cursor) ==
    <<base, endpoint, "?limit=100">>

\* the URL, as the pieces format!/push_str put together
BuildUrl(base, endpoint, cursor) ==
    <<base, endpoint, "?limit=100">>
    \o (IF IsSome(cursor) THEN <<"&after=", Unwrap(cursor)>> ELSE << >>)

\* the http::Request
Request(key, base, endpoint, cursor) ==
    [method |-> "GET",
     url |-> BuildUrl(base, endpoint, cursor),
     headers |-> << [name |-> "authorization", value |-> <<"Bearer ", key>>],
                    [name |-> "content-type", value |-> <<"application/json">>] >>,
     body |-> ""]

\* "Extract pagination info": the instance after the paging block
ExtractPaging(self, resp_json) ==
    LET paging == Get(resp_json, "paging")
    IN  IF IsSome(paging)
        THEN LET more == IsSome(Get(Unwrap(paging), "next"))
                 token == AndThenGet(Get(Unwrap(paging), "next"), "after")
             IN  [self EXCEPT !.has_more = more,
                              !.after = IF more
                                        THEN (IF IsSome(token) THEN AsStr(Unwrap(token)) ELSE None)
                                        ELSE @]
        ELSE self

\* "Extract results": the instance after the results block
ExtractResults(self, resp_json) ==
    LET results == Get(resp_json, "results")
    IN  IF IsSome(results) /\ IsSome(AsArray(Unwrap(results)))
        THEN [self EXCEPT !.src_rows = @ \o Unwrap(AsArray(Unwrap(results)))]
        ELSE self

\* fetch_data that drops has_more before it reports a body that does not parse
fetch_dataForgetsOnParseError(self, key, base, object, resp) ==
    LET endpoint == Endpoint(object)
    IN  IF ~IsSome(endpoint)
        THEN [self |-> self, res |-> Err(UnsupportedError(object)), reqs |-> << >>]
        ELSE LET req == Request(key, base, Unwrap(endpoint), self.after)
             IN  IF ~resp.ok
                 THEN [self |-> self, res |-> Err(TransportError), reqs |-> <<req>>]
                 ELSE IF ~IsSome(resp.body)
                 THEN [self |-> [self EXCEPT !.has_more = FALSE],
                       res |-> Err(ParseError), reqs |-> <<req>>]
                 ELSE [self |-> ExtractResults(ExtractPaging(self, Unwrap(resp.body)),
                                               Unwrap(resp.body)),
                       res |-> Ok, reqs |-> <<req>>]

\* fetch_data(&mut self, object) against the response `resp` of the remote:
\* the instance afterwards, the result, and the requests that went out
fetch_data(self, key, base, object, resp) ==
    LET endpoint == Endpoint(object)
    IN  IF ~IsSome(endpoint)
        THEN [self |-> self, res |-> Err(UnsupportedError(object)), reqs |-> << >>]
        ELSE LET req == Request(key, base, Unwrap(endpoint), self.after)
             IN  IF ~resp.ok
                 THEN [self |-> self, res |-> Err(TransportError), reqs |-> <<req>>]
                 ELSE IF ~IsSome(resp.body)
                 THEN [self |-> self, res |-> Err(ParseError), reqs |-> <<req>>]
                 ELSE [self |-> ExtractResults(ExtractPaging(self, Unwrap(resp.body)),
                                               Unwrap(resp.body)),
                       res |-> Ok, reqs |-> <<req>>]

-----------------------------------------------------------------------------
(* The Guest entry points, as functions of the instance and the call's inputs. *)
(* Each yields the instance afterwards (self), the result (res), the value of  *)
(* an Ok result (val: Some(1) or None for iter_scan), the requests issued      *)
(* (reqs), the caller's row afterwards (row), and whether a fetch_data call    *)
(* of this entry point returned Ok (fetched).                                  *)

Cleared == [src_rows |-> << >>, src_idx |-> 0, after |-> None, has_more |-> FALSE]

\* BeginScan without `this.after = None`
BeginScanKeepsCursor(self, key, base, object, resp) ==
    LET this == [Cleared EXCEPT !.after = self.after]
    IN  IF ~IsSome(object)
        THEN [self |-> this, res |-> Err(MissingOptionError), val |-> None,
              reqs |-> << >>, row |-> << >>, fetched |-> FALSE]
        ELSE LET f == fetch_data(this, key, base, Unwrap(object), resp)
             IN  [self |-> f.self, res |-> f.res, val |-> None, reqs |-> f.reqs,
                  row |-> << >>, fetched |-> f.res.ok]

\* BeginScan without the four resetting assignments
BeginScanWithoutClear(self, key, base, object, resp) ==
    IF ~IsSome(object)
    THEN [self |-> self, res |-> Err(MissingOptionError), val |-> None,
          reqs |-> << >>, row |-> << >>, fetched |-> FALSE]
    ELSE LET f == fetch_data(self, key, base, Unwrap(object), resp)
         IN  [self |-> f.self, res |-> f.res, val |-> None, reqs |-> f.reqs,
              row |-> << >>, fetched |-> f.res.ok]

BeginScan(self, key, base, object, resp) ==
    LET this == Cleared
    IN  IF ~IsSome(object)
        THEN [self |-> this, res |-> Err(MissingOptionError), val |-> None,
              reqs |-> << >>, row |-> << >>, fetched |-> FALSE]
        ELSE LET f == fetch_data(this, key, base, Unwrap(object), resp)
             IN  [self |-> f.self, res |-> f.res, val |-> None, reqs |-> f.reqs, row |-> << >>, fetched |-> f.res.ok]

\* iter_scan from `let src_row = ...` on: project the record at src_idx
ProjectRow(this, cols, row, reqs) ==
    LET p == ProjectFrom(this.src_rows[this.src_idx + 1], cols, 1, row)
    IN  IF p.res.ok
        THEN [self |-> [this EXCEPT !.src_idx = @ + 1], res |-> Ok, val |-> Some(1),
              reqs |-> reqs, row |-> p.row, fetched |-> reqs # << >>]
        ELSE [self |-> this, res |-> p.res, val |-> None, reqs |-> reqs, row |-> p.row, fetched |-> reqs # << >>]

\* IterScan that fetches at the end of the buffer whatever has_more says
IterScanFetchesWithoutMore(self, key, base, object, cols, row, resp) ==
    IF self.src_idx >= Len(self.src_rows)
    THEN IF ~IsSome(object)
         THEN [self |-> self, res |-> Err(MissingOptionError), val |-> None,
               reqs |-> << >>, row |-> row, fetched |-> FALSE]
         ELSE LET f == fetch_data(self, key, base, Unwrap(object), resp)
                  this == [f.self EXCEPT !.src_idx = 0]
              IN  IF ~f.res.ok
                  THEN [self |-> f.self, res |-> f.res, val |-> None,
                        reqs |-> f.reqs, row |-> row, fetched |-> FALSE]
                  ELSE IF this.src_idx >= Len(this.src_rows)
                  THEN [self |-> this, res |-> Ok, val |-> None,
                        reqs |-> f.reqs, row |-> row, fetched |-> TRUE]
                  ELSE ProjectRow(this, cols, row, f.reqs)
    ELSE ProjectRow(self, cols, row, << >>)

IterScan(self, key, base, object, cols, row, resp) ==
    IF self.src_idx >= Len(self.src_rows)
    THEN IF self.has_more
         THEN IF ~IsSome(object)
              THEN [self |-> self, res |-> Err(MissingOptionError), val |-> None,
                    reqs |-> << >>, row |-> row, fetched |-> FALSE]
              ELSE LET f == fetch_data(self, key, base, Unwrap(object), resp)
                       this == [f.self EXCEPT !.src_idx = 0]
                   IN  IF ~f.res.ok
                       THEN [self |-> f.self, res |-> f.res, val |-> None,
                             reqs |-> f.reqs, row |-> row, fetched |-> FALSE]
                       ELSE IF this.src_idx >= Len(this.src_rows)
                       THEN [self |-> this, res |-> Ok, val |-> None,
                             reqs |-> f.reqs, row |-> row, fetched |-> TRUE]
                       ELSE ProjectRow(this, cols, row, f.reqs)
         ELSE [self |-> self, res |-> Ok, val |-> None, reqs |-> << >>, row |-> row,
               fetched |-> FALSE]
    ELSE ProjectRow(self, cols, row, << >>)

\* ReScan that also forgets the cursor
ReScanDropsCursor(self) ==
    [self |-> [self EXCEPT !.src_idx = 0, !.after = None], res |-> Ok, val |-> None,
     reqs |-> << >>, row |-> << >>, fetched |-> FALSE]

ReScan(self) ==
    [self |-> [self EXCEPT !.src_idx = 0], res |-> Ok, val |-> None,
     reqs |-> << >>, row |-> << >>, fetched |-> FALSE]

\* EndScan without `this.has_more = false`
EndScanKeepsMoreFlag(self) ==
    [self |-> [self EXCEPT !.src_rows = << >>, !.src_idx = 0, !.after = None],
     res |-> Ok, val |-> None, reqs |-> << >>, row |-> << >>, fetched |-> FALSE]

\* EndScan without `this.src_idx = 0`
EndScanKeepsIndex(self) ==
    [self |-> [self EXCEPT !.src_rows = << >>, !.after = None, !.has_more = FALSE],
     res |-> Ok, val |-> None, reqs |-> << >>, row |-> << >>, fetched |-> FALSE]

EndScan(self) ==
    [self |-> [self EXCEPT !.src_rows = << >>, !.src_idx = 0, !.after = None,
                           !.has_more = FALSE],
     res |-> Ok, val |-> None, reqs |-> << >>, row |-> << >>, fetched |-> FALSE]

\* begin_modify, insert, update, delete, end_modify
BeginModify(self) ==
    [self |-> self, res |-> Err(ReadOnlyError), val |-> None, reqs |-> << >>, row |-> << >>, fetched |-> FALSE]
Insert(self, row) ==
    [self |-> self, res |-> Err(ReadOnlyError), val |-> None, reqs |-> << >>, row |-> << >>, fetched |-> FALSE]
Update(self, rowid, row) ==
    [self |-> self, res |-> Err(ReadOnlyError), val |-> None, reqs |-> << >>, row |-> << >>, fetched |-> FALSE]
\* Delete that drops the buffered rows before it rejects the call
DeleteDropsBuffer(self, rowid) ==
    [self |-> [self EXCEPT !.src_rows = << >>, !.src_idx = 0],
     res |-> Err(ReadOnlyError), val |-> None, reqs |-> << >>, row |-> << >>, fetched |-> FALSE]
Delete(self, rowid) ==
    [self |-> self, res |-> Err(ReadOnlyError), val |-> None, reqs |-> << >>, row |-> << >>, fetched |-> FALSE]
EndModify(self) ==
    [self |-> self, res |-> Err(ReadOnlyError), val |-> None, reqs |-> << >>, row |-> << >>, fetched |-> FALSE]

-----------------------------------------------------------------------------
(* Inputs of the entry points *)

\* the column lists ctx.get_columns() may hold
ColumnLists ==
    { << Col(<<"id">>, "String") >>,
      << Col(<<"id">>, "Json"), Col(<<"name">>, "String") >>,
      << Col(<<"industry">>, "String"), Col(<<"id">>, "Bool") >> }

\* rows and row ids the host may pass to the write entry points
Rows == { << >>, << CellString("x") >> }
RowIds == { CellString("1"), CellString("2") }

\* The remote answers only a request that is sent: a call that sends none
\* (no `object` option, or a selector without an endpoint) gets no response.
NoResponse == [ok |-> FALSE, body |-> None]
ResponsesFor(object) ==
    IF IsSome(object) /\ IsSome(Endpoint(Unwrap(object))) THEN HttpResponses ELSE {NoResponse}

\* iter_scan calls fetch_data only on its next-page branch
SendsRequest == src_idx >= Len(src_rows) /\ has_more

-----------------------------------------------------------------------------
(* Bookkeeping of the current scan, kept beside the instance:                *)
(*   fetches     requests issued since begin_scan was entered                *)
(*   last        the pagination of the last fetch that returned Ok since the *)
(*               buffer was last cleared: None before any, else whether the  *)
(*               response had a "next" descriptor and its `after` string     *)

NoScan == [fetches |-> 0, last |-> None]

(* History of the rows of the current scan:                                  *)
(*   pulled      number of rows iter_scan returned since begin_scan or the   *)
(*               last re_scan                                                *)
(*   first_pass  buffer positions (1-based) of the records iter_scan         *)
(*               returned between begin_scan and the first re_scan, in order *)
(*   restarted   re_scan was called in this scan                             *)
(*   refetched   iter_scan issued a request since the last re_scan           *)

NoHist == [pulled |-> 0, first_pass |-> << >>, restarted |-> FALSE, refetched |-> FALSE]

\* what a parsed response says about the next page
PagingOf(resp) ==
    LET next == AndThenGet(Get(Unwrap(resp.body), "paging"), "next")
        token == AndThenGet(next, "after")
    IN  [next |-> IsSome(next),
         token |-> IF IsSome(token) THEN AsStr(Unwrap(token)) ELSE None]

\* the fields of the instance on entry to iter_scan, kept with its result
Pre(self) ==
    [src_idx |-> self.src_idx, len |-> Len(self.src_rows),
     has_more |-> self.has_more, after |-> self.after]

\* the instance and `ret` after an entry point that came out as `out`
Returns(op, out, cols, pre) ==
    /\ src_rows' = out.self.src_rows
    /\ src_idx' = out.self.src_idx
    /\ after' = out.self.after
    /\ has_more' = out.self.has_more
    /\ ret' = [op |-> op, res |-> out.res, val |-> out.val, reqs |-> out.reqs,
               row |-> out.row, cols |-> cols, fetched |-> out.fetched, pre |-> pre]
    /\ UNCHANGED <<ctx_object, api_key, base_url>>

-----------------------------------------------------------------------------
(* State after Guest::init *)

Init ==
    /\ ctx_object \in ObjectOpts
    /\ api_key = "key"
    /\ base_url = "https://api.hubapi.com"
    /\ src_rows = << >>
    /\ src_idx = 0
    /\ after = None
    /\ has_more = FALSE
    /\ ret = [op |-> "init", res |-> Ok, val |-> None, reqs |-> << >>, row |-> << >>,
              cols |-> << >>, fetched |-> FALSE, pre |-> Pre(Cleared)]
    /\ scan = NoScan
    /\ hist = NoHist

-----------------------------------------------------------------------------
(* The entry points *)

\* begin_scan, with the answer of the remote drawn from `responses`
OpenScan(responses) ==
    \E resp \in responses :
        LET out == BeginScan(This, api_key, base_url, ctx_object, resp)
        IN  /\ Returns("begin_scan", out, << >>, Pre(Cleared))
            /\ scan' = [NoScan EXCEPT !.fetches = Len(out.reqs),
                                      !.last = IF out.fetched THEN Some(PagingOf(resp)) ELSE None]

begin_scan == OpenScan(ResponsesFor(ctx_object))

\* iter_scan, with the context's columns drawn from `lists`
PullRow(lists) ==
    \E cols \in lists :
      \E resp \in (IF SendsRequest THEN ResponsesFor(ctx_object) ELSE {NoResponse}) :
        LET out == IterScan(This, api_key, base_url, ctx_object, cols, << >>, resp)
        IN  /\ scan.fetches + Len(out.reqs) <= MaxFetches
            /\ Returns("iter_scan", out, cols, Pre(This))
            /\ scan' = [scan EXCEPT !.fetches = @ + Len(out.reqs),
                                    !.last = IF out.fetched THEN Some(PagingOf(resp)) ELSE @]

iter_scan == PullRow(ColumnLists)

re_scan ==
    /\ Returns("re_scan", ReScan(This), << >>, Pre(Cleared))
    /\ UNCHANGED scan

end_scan ==
    /\ Returns("end_scan", EndScan(This), << >>, Pre(Cleared))
    /\ scan' = NoScan

begin_modify ==
    /\ Returns("begin_modify", BeginModify(This), << >>, Pre(Cleared))
    /\ UNCHANGED scan

insert ==
    \E row \in Rows :
        /\ Returns("insert", Insert(This, row), << >>, Pre(Cleared))
        /\ UNCHANGED scan

update ==
    \E rowid \in RowIds, row \in Rows :
        /\ Returns("update", Update(This, rowid, row), << >>, Pre(Cleared))
        /\ UNCHANGED scan

delete ==
    \E rowid \in RowIds :
        /\ Returns("delete", Delete(This, rowid), << >>, Pre(Cleared))
        /\ UNCHANGED scan

end_modify ==
    /\ Returns("end_modify", EndModify(This), << >>, Pre(Cleared))
    /\ UNCHANGED scan

\* the history is left alone ...
Untracked == UNCHANGED hist

\* ... or follows the entry point that `ret'` names
Tracked ==
    LET got == IsSome(ret'.val)
    IN  hist' =
          CASE ret'.op \in {"begin_scan", "end_scan"} -> NoHist
            [] ret'.op = "iter_scan" ->
                 [hist EXCEPT !.pulled = IF got THEN @ + 1 ELSE @,
                              !.first_pass = IF got /\ ~hist.restarted
                                             THEN Append(@, src_idx') ELSE @,
                              !.refetched = @ \/ ret'.reqs # << >>]
            [] OTHER ->
                 [hist EXCEPT !.pulled = 0, !.restarted = TRUE, !.refetched = FALSE]

Next ==
    \/ begin_scan /\ Untracked
    \/ iter_scan /\ Untracked
    \/ re_scan /\ Untracked
    \/ end_scan /\ Untracked
    \/ begin_modify /\ Untracked
    \/ insert /\ Untracked
    \/ update /\ Untracked
    \/ delete /\ Untracked
    \/ end_modify /\ Untracked

Spec == Init /\ [][Next]_vars

\* The scan entry points with the history of returned rows recorded.  The
\* write entry points are left out here: they change neither the instance nor
\* the history (C8_WritesRejected, under Spec).
HistNext ==
    \/ begin_scan /\ Tracked
    \/ iter_scan /\ Tracked
    \/ re_scan /\ Tracked
    \/ end_scan /\ Tracked

HistSpec == Init /\ [][HistNext]_vars

-----------------------------------------------------------------------------
(* Projection of single records: scans of the contacts collection whose one  *)
(* page holds a record with "name" absent, null or a string at the top level *)
(* and `properties` absent, not an object, or an object without or with      *)
(* "name".                                                                   *)

TopOpts == { None, Some(JNull), Some(JStr("Top")) }
PropsOpts ==
    { None,
      Some(JStr("flat")),
      Some(JObj([industry |-> JStr("Tech")])),
      Some(JObj([name |-> JNull])),
      Some(JObj([name |-> JStr("Nested"), email |-> JStr("a@b.c")])) }

ProjRecord(top, props) ==
    JObj([k \in {"id"} \cup (IF IsSome(top) THEN {"name"} ELSE {})
                       \cup (IF IsSome(props) THEN {"properties"} ELSE {}) |->
            CASE k = "name" -> Unwrap(top)
              [] k = "properties" -> Unwrap(props)
              [] OTHER -> JStr("7")])

ProjRecords == { ProjRecord(top, props) : top \in TopOpts, props \in PropsOpts }

\* a page of one such record, alone or behind RecA
ProjResponses ==
    { [ok |-> TRUE, body |-> Some(Body(None, Some(JArr(p))))] :
        p \in { <<r>> : r \in ProjRecords } \cup { <<RecA, r>> : r \in ProjRecords } }

ProjColumnLists ==
    { << Col(<<"name">>, "String") >>,
      << Col(<<"name">>, "Json") >>,
      << Col(<<"email">>, "String") >>,
      << Col(<<"name">>, "Json"), Col(<<"id">>, "String") >> }

ProjInit == Init /\ ctx_object = Some("contacts")

ProjNext ==
    \/ OpenScan(ProjResponses) /\ Untracked
    \/ PullRow(ProjColumnLists) /\ Untracked
    \/ re_scan /\ Untracked
    \/ end_scan /\ Untracked

ProjSpec == ProjInit /\ [][ProjNext]_vars

-----------------------------------------------------------------------------
(* Cells of single columns: scans of the contacts collection whose one page  *)
(* holds a record with a value of every JSON kind, read through one column   *)
(* of every declared type, flat or dotted.                                   *)

KindRec ==
    JObj([active |-> JBool(TRUE),
          score |-> JNum(42),
          name |-> JStr("Acme"),
          createdAt |-> JStr("1970-01-01T00:00:01Z"),
          email |-> JNull,
          tags |-> JArr(<<JStr("a"), JNum(1)>>),
          properties |-> JObj([industry |-> JStr("Tech"),
                               link |-> JObj([id |-> JStr("9")]),
                               tags |-> JArr(<< >>)])])

\* TypeOid variants: the four with an arm of their own, two of the `_` arm
TypeOids == {"Bool", "String", "Timestamp", "Json", "I64", "Timestamptz"}

\* flat column names, one per JSON kind and one more string
KindNames == {"active", "score", "name", "createdAt", "email", "tags", "properties"}

\* dotted column names: paths that exist, a path whose last part is absent,
\* a path that exists only under `properties`, paths through a string and
\* through an array
DottedNames ==
    { <<"properties", "industry">>, <<"properties", "link", "id">>,
      <<"properties", "email">>, <<"link", "id">>, <<"name", "id">>, <<"tags", "id">> }

CellColumnLists ==
    { << Col(<<k>>, t) >> : k \in KindNames, t \in TypeOids }
    \cup { << Col(n, t) >> : n \in DottedNames, t \in {"String", "Json"} }

CellResponses ==
    { [ok |-> TRUE, body |-> Some(Body(None, Some(JArr(p))))] :
        p \in { <<KindRec>>, <<RecA, KindRec>> } }

CellNext ==
    \/ OpenScan(CellResponses) /\ Untracked
    \/ PullRow(CellColumnLists) /\ Untracked
    \/ re_scan /\ Untracked
    \/ end_scan /\ Untracked

CellSpec == ProjInit /\ [][CellNext]_vars

-----------------------------------------------------------------------------
(* One scan pulled to its end: begin_scan once, then iter_scan again and     *)
(* again with no re_scan, against a remote that has finitely many pages and  *)
(* answers every request successfully.                                       *)

\* the responses that parse
PageResponses == { r \in HttpResponses : r.ok /\ IsSome(r.body) }

\* the remote has served its last page: a response without a next descriptor
ServedLast == IsSome(scan.last) /\ ~Unwrap(scan.last).next

\* What the remote answers to the next request of the scan.  Its pages are at
\* most MaxFetches, so the MaxFetches-th response has no next descriptor; asked
\* past its last page it has no record and no next page to give.
RemotePages ==
    IF ServedLast
    THEN { r \in PageResponses :
             /\ ~PagingOf(r).next
             /\ Get(Unwrap(r.body), "results") \in {None, Some(JArr(<< >>))} }
    ELSE IF scan.fetches + 1 >= MaxFetches
    THEN { r \in PageResponses : ~PagingOf(r).next }
    ELSE PageResponses

\* column lists every record of the pages can be read through
LiveColumnLists == { << Col(<<"id">>, "String") >>, << Col(<<"id">>, "Json") >> }

LiveOpen ==
    /\ ret.op = "init"
    /\ OpenScan(RemotePages)

LivePull ==
    /\ ret.op # "init"
    /\ \E cols \in LiveColumnLists :
         \E resp \in (IF SendsRequest THEN RemotePages ELSE {NoResponse}) :
           LET out == IterScan(This, api_key, base_url, ctx_object, cols, << >>, resp)
               sent == scan.fetches + Len(out.reqs)
           IN  /\ Returns("iter_scan", out, cols, Pre(This))
               /\ scan' = [fetches |-> IF sent > MaxFetches THEN MaxFetches ELSE sent,
                           last |-> IF out.fetched THEN Some(PagingOf(resp)) ELSE scan.last]

LiveNext ==
    \/ LiveOpen /\ Untracked
    \/ LivePull /\ Untracked

\* the host keeps pulling until it is told the scan has ended
LiveSpec == ProjInit /\ [][LiveNext]_vars /\ WF_vars(LivePull /\ Untracked)

-----------------------------------------------------------------------------
(* Claims C1 .. C20 *)

\* the `after` query parameter of a request URL, None when it has none
AfterParam(url) ==
    IF \E i \in 1..(Len(url) - 1) : url[i] = "&after="
    THEN Some(url[(CHOOSE i \in 1..(Len(url) - 1) : url[i] = "&after=") + 1])
    ELSE None

\* the last entry point was iter_scan and it returned a row / end-of-data
ReturnedRow == ret.op = "iter_scan" /\ ret.res.ok /\ IsSome(ret.val)
ReturnedEnd == ret.op = "iter_scan" /\ ret.res.ok /\ ~IsSome(ret.val)
\* the last entry point was iter_scan and it failed in resolution or coercion
FailedInRow ==
    /\ ret.op = "iter_scan"
    /\ ~ret.res.ok
    /\ ret.res.err.msg \in {NotFoundError(<<"c">>).msg, ConvertError(<<"c">>, "Bool").msg}
\* the last entry point was iter_scan and a fetch_data of it returned Ok
Refetched == ret.op = "iter_scan" /\ ret.reqs # << >> /\ ret.fetched

\* C1: in a scan with no re_scan the k-th row iter_scan returns is the k-th
\* record of the buffer (the concatenation of the fetched pages, in fetch
\* order), each returned once: after a follow-up fetch the pull reads at the
\* read index it had (the index moves on by one), and when the fetch added no
\* record the pull returns end-of-data.
C1_PullsFollowPages ==
    /\ ~hist.restarted =>
          \A k \in 1..Len(hist.first_pass) : hist.first_pass[k] = k
    /\ (Refetched /\ IsSome(ret.val)) => src_idx = ret.pre.src_idx + 1
    /\ (Refetched /\ ret.res.ok /\ Len(src_rows) = ret.pre.len) => ~IsSome(ret.val)

\* C2: once a fetch of the scan returned Ok on a response without a
\* pagination-next descriptor (no "next", or no "paging" at all), has_more is
\* false, and an iter_scan entered with the read index at the buffer length
\* returns end-of-data and sends no request.
C2_NoNextEndsPaging ==
    /\ (IsSome(scan.last) /\ ~Unwrap(scan.last).next) => ~has_more
    /\ (IsSome(scan.last) /\ ~Unwrap(scan.last).next
          /\ ret.op = "iter_scan" /\ ret.pre.src_idx = ret.pre.len)
       => (ReturnedEnd /\ ret.reqs = << >>)

\* C3: when the last fetch that returned Ok carried a "next" descriptor with
\* the `after` token T, the next request iter_scan sends in that scan has
\* exactly T as its `after` parameter, whatever was called in between.
C3_NextFetchCarriesToken ==
    [][ (/\ ret'.op = "iter_scan"
         /\ ret'.reqs # << >>
         /\ IsSome(scan.last)
         /\ IsSome(Unwrap(scan.last).token))
        => AfterParam(ret'.reqs[1].url) = Unwrap(scan.last).token ]_vars

\* a follow-up request went out with the token of the page before it
C3_Witness ==
    /\ ret.op = "iter_scan"
    /\ ret.reqs # << >>
    /\ AfterParam(ret.reqs[1].url) = Some("T2")
    /\ ret.pre.after = Some("T2")

\* C4: has_more implies that a cursor token is held, and every request
\* iter_scan sends (it sends one only while has_more) has an `after` parameter.
C4_MoreImpliesCursor ==
    /\ has_more => IsSome(after)
    /\ (ret.op = "iter_scan" /\ ret.reqs # << >>) => IsSome(AfterParam(ret.reqs[1].url))

\* C5: after re_scan, and until iter_scan sends a request again, the k-th row
\* returned is of the k-th record of the buffer, and that record equals the
\* record of the k-th row the first pass returned.
C5_ReplaySameAsFirstPass ==
    (hist.restarted /\ ~hist.refetched /\ ReturnedRow) =>
        /\ src_idx = hist.pulled
        /\ hist.pulled <= Len(hist.first_pass) =>
              src_rows[hist.first_pass[hist.pulled]] = src_rows[src_idx]

\* the selectors fetch_data has an endpoint for
SupportedSelectors == {"contacts", "companies", "deals"}

\* C6: begin_scan with a supported selector sends exactly one request; with any
\* other selector it fails with the error naming the selector and sends none;
\* and iter_scan returns a row only after a fetch of the scan returned Ok.
C6_OpenScanFetchesOnce ==
    /\ (ret.op = "begin_scan" /\ IsSome(ctx_object)) =>
          IF Unwrap(ctx_object) \in SupportedSelectors
          THEN Len(ret.reqs) = 1
          ELSE /\ ret.reqs = << >>
               /\ ~ret.res.ok
               /\ ret.res.err = UnsupportedError(Unwrap(ctx_object))
    /\ ReturnedRow => IsSome(scan.last)

\* a row came back in a scan of the companies collection
C6_Witness == ReturnedRow /\ ctx_object = Some("companies") /\ scan.fetches = 1

\* C7: when iter_scan fails in the resolution or coercion of a column, the
\* caller's row holds no cell.
C7_NoPartialRow == FailedInRow => ret.row = << >>

\* the write entry points
WriteOps == {"begin_modify", "insert", "update", "delete", "end_modify"}

\* C8: each write entry point returns the read-only error, sends no request
\* and leaves buffer, read index, cursor and more-flag as they were.
C8_WritesRejected ==
    [][ ret'.op \in WriteOps =>
          /\ ret'.res = Err(ReadOnlyError)
          /\ ret'.reqs = << >>
          /\ UNCHANGED <<src_rows, src_idx, after, has_more>> ]_vars

\* delete was rejected in the middle of a scan with pages left
C8_Witness ==
    /\ ret.op = "delete"
    /\ ret.res = Err(ReadOnlyError)
    /\ Len(src_rows) > 0 /\ src_idx > 0 /\ has_more /\ IsSome(after)

\* C9: the read index never exceeds the buffer length, and iter_scan returns
\* end-of-data only with the read index at the buffer length.
C9_IndexWithinBuffer ==
    /\ src_idx <= Len(src_rows)
    /\ ReturnedEnd => src_idx = Len(src_rows)

\* end-of-data came back from a buffer that was read to its end
C9_Witness == ReturnedEnd /\ src_idx = Len(src_rows) /\ Len(src_rows) > 0

\* the record iter_scan read, when it read one: the buffer entry at the read
\* index it was entered with
ReadRecord == src_rows[ret.pre.src_idx + 1]

\* C10: for a flat first column, a record with the name as a top-level key
\* yields the top-level value, also when `properties` holds the name; a record
\* without the top-level key whose `properties` holds the name yields the value
\* under `properties`; otherwise iter_scan fails with the 'source column not
\* found' error naming the column.  The value is seen through its coercion:
\* the first cell of the row, or the conversion error.
C10_FlatColumnPrecedence ==
    (ret.op = "iter_scan" /\ ret.pre.src_idx < ret.pre.len /\ Len(ret.cols[1].name) = 1) =>
        LET col == ret.cols[1]
            top == col.name[1] \in DOMAIN ReadRecord.fields
            nested == /\ "properties" \in DOMAIN ReadRecord.fields
                      /\ ReadRecord.fields.properties.kind = "object"
                      /\ col.name[1] \in DOMAIN ReadRecord.fields.properties.fields
            value == IF top THEN ReadRecord.fields[col.name[1]]
                     ELSE ReadRecord.fields.properties.fields[col.name[1]]
        IN  IF top \/ nested
            THEN IF IsSome(Coerce(col.type_oid, value))
                 THEN Len(ret.row) >= 1 /\ ret.row[1] = Unwrap(Coerce(col.type_oid, value))
                 ELSE ~ret.res.ok /\ ret.res.err = ConvertError(col.name, col.type_oid)
            ELSE ~ret.res.ok /\ ret.res.err = NotFoundError(col.name)

\* a record with "name" at the top level and under `properties` gave the
\* top-level string
C10_Witness ==
    /\ ReturnedRow
    /\ ret.cols = << Col(<<"name">>, "String") >>
    /\ ReadRecord = ProjRecord(Some(JStr("Top")), Some(JObj([name |-> JStr("Nested"), email |-> JStr("a@b.c")])))
    /\ ret.row = << CellString("Top") >>

\* the first column of the last call
FirstCol == ret.cols[1]

\* iter_scan read a record through a column list whose first name is dotted
ReadDotted ==
    ret.op = "iter_scan" /\ ret.pre.src_idx < ret.pre.len /\ Len(FirstCol.name) > 1

\* v is an object with key k
HasKey(v, k) == v.kind = "object" /\ k \in DOMAIN v.fields

\* every part of the path p (two or three parts) is a present key, level by level
PathPresent(rec, p) ==
    /\ HasKey(rec, p[1])
    /\ HasKey(rec.fields[p[1]], p[2])
    /\ Len(p) > 2 => HasKey(rec.fields[p[1]].fields[p[2]], p[3])

\* the value at the end of a present path
PathValue(rec, p) ==
    IF Len(p) > 2 THEN rec.fields[p[1]].fields[p[2]].fields[p[3]]
    ELSE rec.fields[p[1]].fields[p[2]]

\* C11: for a dotted first column, when every part is a present key level by
\* level the value at the end of the path is the resolved one (seen through
\* its coercion: the first cell, or the conversion error); when a part is
\* absent iter_scan fails with the 'source column not found' error naming the
\* full dotted name, also when the path exists under `properties`.
C11_DottedPathWalk ==
    ReadDotted =>
        IF PathPresent(ReadRecord, FirstCol.name)
        THEN IF IsSome(Coerce(FirstCol.type_oid, PathValue(ReadRecord, FirstCol.name)))
             THEN ret.row = << Unwrap(Coerce(FirstCol.type_oid, PathValue(ReadRecord, FirstCol.name))) >>
             ELSE ~ret.res.ok /\ ret.res.err = ConvertError(FirstCol.name, FirstCol.type_oid)
        ELSE ~ret.res.ok /\ ret.res.err = NotFoundError(FirstCol.name)

\* a three-part path was walked to its string
C11_Witness ==
    /\ ReturnedRow
    /\ ret.cols = << Col(<<"properties", "link", "id">>, "String") >>
    /\ ret.row = << CellString("9") >>
    /\ ReadRecord = KindRec

\* iter_scan read a record through a column list whose first name is flat
ReadFlat ==
    ret.op = "iter_scan" /\ ret.pre.src_idx < ret.pre.len /\ Len(FirstCol.name) = 1

\* the declared type t takes the value v, as the claim C12 states it
Accepts(t, v) ==
    CASE t = "Bool" -> v.kind = "bool"
      [] t = "String" -> v.kind = "string"
      [] t = "Timestamp" -> v.kind = "string" /\ IsSome(ParseRfc3339(v.s))
      [] t = "Json" -> TRUE
      [] OTHER -> v.kind = "number"

\* C12: for a flat first column of a declared type other than Json whose name
\* is a top-level key, iter_scan gives a cell exactly when a Bool column meets
\* a boolean, a String column a string, a Timestamp column a string the
\* RFC3339 parser accepts, any other type a number; every other pair fails
\* with the conversion error naming the column and the type.
C12_StrictCoercion ==
    (ReadFlat /\ FirstCol.type_oid # "Json" /\ HasKey(ReadRecord, FirstCol.name[1])) =>
        IF Accepts(FirstCol.type_oid, ReadRecord.fields[FirstCol.name[1]])
        THEN Len(ret.row) >= 1 /\ ret.row[1].cell \in {"Bool", "String", "Timestamp"}
        ELSE ~ret.res.ok /\ ret.res.err = ConvertError(FirstCol.name, FirstCol.type_oid)

\* a Timestamp column met a string that is no RFC3339 time and failed
C12_Witness ==
    /\ ReadFlat
    /\ ret.cols = << Col(<<"name">>, "Timestamp") >>
    /\ ReadRecord = KindRec
    /\ ~ret.res.ok
    /\ ret.res.err = ConvertError(<<"name">>, "Timestamp")

\* the name resolves on the record: a present path, or a flat name at the top
\* level or under `properties`
Resolves(rec, name) ==
    IF Len(name) > 1 THEN PathPresent(rec, name)
    ELSE \/ HasKey(rec, name[1])
         \/ HasKey(rec, "properties") /\ HasKey(rec.fields.properties, name[1])

\* C13: a first column declared Json whose name resolves always gives a Json
\* cell, whatever the kind of the value, and never the conversion error.
C13_JsonCoercionTotal ==
    (ret.op = "iter_scan" /\ ret.pre.src_idx < ret.pre.len /\ FirstCol.type_oid = "Json"
       /\ Resolves(ReadRecord, FirstCol.name)) =>
        /\ Len(ret.row) >= 1
        /\ ret.row[1].cell = "Json"
        /\ ~ret.res.ok => ret.res.err.msg # ConvertError(FirstCol.name, "Json").msg

\* a Json column met null and gave its text
C13_Witness ==
    /\ ReturnedRow
    /\ ret.cols = << Col(<<"email">>, "Json") >>
    /\ ReadRecord = KindRec
    /\ ret.row = << CellJson("null") >>

\* C14: re_scan sets the read index to zero, leaves the buffer, the cursor and
\* the more-flag as they were, and sends no request.
C14_RestartMovesIndexOnly ==
    [][ ret'.op = "re_scan" =>
          /\ src_idx' = 0
          /\ UNCHANGED <<src_rows, after, has_more>>
          /\ ret'.reqs = << >>
          /\ ret'.res.ok ]_vars

\* re_scan returned on a scan with buffered records, a cursor and pages left
C14_Witness ==
    /\ ret.op = "re_scan"
    /\ src_idx = 0
    /\ Len(src_rows) = 2
    /\ has_more
    /\ after = Some("T1")

\* C15: iter_scan sends at most one request, sends one only when it was
\* entered with the read index at the buffer length and has_more true, and
\* sends none when it was entered with an unread record in the buffer.
C15_FetchOnlyWhenExhausted ==
    ret.op = "iter_scan" =>
        /\ Len(ret.reqs) <= 1
        /\ ret.reqs # << >> => (ret.pre.src_idx = ret.pre.len /\ ret.pre.has_more)
        /\ ret.pre.src_idx < ret.pre.len => ret.reqs = << >>

\* iter_scan entered at the end of a non-empty buffer with pages left sent
\* its one request
C15_Witness ==
    /\ ret.op = "iter_scan"
    /\ Len(ret.reqs) = 1
    /\ ret.pre.src_idx = ret.pre.len
    /\ ret.pre.len > 0
    /\ ret.pre.has_more

\* C16: end_scan leaves the instance cleared (empty buffer, read index zero,
\* no cursor, has_more false); on the cleared instance iter_scan returns
\* end-of-data without a request and leaves it cleared, and so do re_scan and
\* the write entry points, so every iter_scan between end_scan and the next
\* begin_scan returns end-of-data without a request.
C16_CloseScanClears ==
    [][ /\ ret'.op = "end_scan" => This' = Cleared
        /\ (This = Cleared /\ ret'.op = "iter_scan") =>
              /\ ret'.res.ok /\ ~IsSome(ret'.val)
              /\ ret'.reqs = << >>
              /\ This' = Cleared
        /\ (This = Cleared /\ ret'.op \in {"re_scan"} \cup WriteOps) => This' = Cleared ]_vars

\* iter_scan returned end-of-data on the cleared instance of a closed scan
C16_Witness ==
    /\ ReturnedEnd
    /\ ret.reqs = << >>
    /\ ret.pre = Pre(Cleared)
    /\ This = Cleared
    /\ scan = NoScan
    /\ ctx_object = Some("deals")

\* C17: in a scan of successful page responses pulled with no re_scan, once
\* the response without a next descriptor has been fetched (its envelope
\* present without "next", or absent), iter_scan eventually returns
\* end-of-data.
C17_ScanTerminates == ServedLast ~> ReturnedEnd

\* the records a parsed response carries: its "results" array, none when the
\* field is absent or no array
ResultsOf(resp) ==
    LET results == Get(Unwrap(resp.body), "results")
    IN  IF IsSome(results) /\ Unwrap(results).kind = "array"
        THEN Unwrap(results).items ELSE << >>

\* C18: right after a begin_scan that returned Ok there is one response such
\* that the buffer holds exactly its results, the read index is zero, has_more
\* says whether it had a next descriptor and the cursor is that descriptor's
\* `after` string (none without one); one request went out, without an
\* `after` parameter.
C18_ScanIsolation ==
    (ret.op = "begin_scan" /\ ret.res.ok) =>
        /\ \E resp \in PageResponses :
              /\ scan.last = Some(PagingOf(resp))
              /\ src_rows = ResultsOf(resp)
              /\ has_more = PagingOf(resp).next
              /\ after = IF PagingOf(resp).next THEN PagingOf(resp).token ELSE None
        /\ src_idx = 0
        /\ Len(ret.reqs) = 1
        /\ AfterParam(ret.reqs[1].url) = None

\* begin_scan returned Ok with a page of one record and a cursor
C18_Witness ==
    /\ ret.op = "begin_scan"
    /\ ret.res.ok
    /\ src_rows = <<RecB>>
    /\ src_idx = 0
    /\ has_more
    /\ after = Some("T2")

\* the two failures of a fetch after its request went out
FetchErrors == {TransportError, ParseError}

\* C19: an iter_scan that fails on its fetch with a transport or parse error
\* leaves buffer, read index, cursor and more-flag as they were; a begin_scan
\* that fails so leaves them as they were before the fetch, that is cleared.
C19_FailedFetchChangesNothing ==
    [][ /\ (ret'.op = "iter_scan" /\ ~ret'.res.ok /\ ret'.res.err \in FetchErrors) =>
              UNCHANGED <<src_rows, src_idx, after, has_more>>
        /\ (ret'.op = "begin_scan" /\ ~ret'.res.ok /\ ret'.res.err \in FetchErrors) =>
              This' = Cleared ]_vars

\* iter_scan failed on a body that does not parse, at the end of a non-empty
\* buffer with pages left
C19_Witness ==
    /\ ret.op = "iter_scan"
    /\ ~ret.res.ok
    /\ ret.res.err = ParseError
    /\ Len(ret.reqs) = 1
    /\ src_idx = Len(src_rows)
    /\ Len(src_rows) > 0
    /\ has_more
    /\ IsSome(after)

\* C20: an iter_scan that returns a row leaves the read index one above the
\* index it was entered with; one that fails in resolution or coercion
\* leaves the read index on a buffered record, and where it was when no fetch
\* came before the failure.
C20_PullConsumesOnSuccessOnly ==
    /\ ReturnedRow => src_idx = ret.pre.src_idx + 1
    /\ FailedInRow => src_idx < Len(src_rows)
    /\ (FailedInRow /\ ret.reqs = << >>) => src_idx = ret.pre.src_idx

====
